---- MODULE Spec2Model ----
(***************************************************************************)
(* A model of the tinter slog handler (src/handler.go, src/buffer.go):     *)
(* the pooled scratch buffers, the handler snapshots produced by WithAttrs *)
(* and WithGroup, the rendering of a record into one line and the          *)
(* synchronized write of that line to the shared writer.                   *)
(*                                                                         *)
(* Text is a sequence of bytes; a byte is a one-character string.  Go      *)
(* slices of strings (handler.groups) are modelled with their backing      *)
(* arrays, because append may write in place into a shared array.          *)
(***************************************************************************)
EXTENDS Integers, Sequences, FiniteSets, TLC

VARIABLES
    handlers,   \* the handler objects created so far, by address (index)
    arrays,     \* backing arrays of the []string slices held by handlers
    bufs,       \* the buffer objects, by address
    pool,       \* bufPool: how many times each buffer address sits in the pool
    thr,        \* per goroutine: position in its current call and its locals
    hist,       \* per handler: the WithGroup names and attribute keys given to it
    levelIn,    \* input of the level rendering under SpecLevel
    levelOut    \* bytes appended by appendLevel for levelIn

vars == <<handlers, arrays, bufs, pool, thr, hist, levelIn, levelOut>>

-----------------------------------------------------------------------------
(* Bounds of the model *)

MaxHandlers == 6        \* handler objects under SpecTree
MaxFlatHandlers == 3    \* handler objects under SpecFlat
MaxConcHandlers == 2    \* handler objects under Spec
MaxBufs == 2            \* buffer objects alive at a time
MaxLevel == 30          \* levels -MaxLevel .. MaxLevel under SpecLevel
BlockBytes == 16384     \* size of the byte block Blk of a long message

\* the goroutines: two, which is what interference between calls takes
Threads == {1, 2}

-----------------------------------------------------------------------------
(* Bytes and text *)

Blk == "#BLOCK"         \* BlockBytes printable bytes, kept as one element
ESC == "ESC"            \* the byte 0x1b

RECURSIVE ByteLen(_)
ByteLen(s) ==
    IF s = <<>> THEN 0
    ELSE (IF Head(s) = Blk THEN BlockBytes ELSE 1) + ByteLen(Tail(s))

RECURSIVE Flatten(_)
Flatten(ss) == IF ss = <<>> THEN <<>> ELSE Head(ss) \o Flatten(Tail(ss))

\* ANSI modes
ansiReset == <<ESC, "[", "0", "m">>
ansiFaint == <<ESC, "[", "2", "m">>
ansiBrightMagentaFaint == <<ESC, "[", "9", "5", ";", "2", "m">>
ansiResetFaint == <<ESC, "[", "2", "2", "m">>
ansiBrightRed == <<ESC, "[", "9", "1", "m">>
ansiBrightRedFaint == <<ESC, "[", "9", "1", ";", "2", "m">>
ansiBrightGreen == <<ESC, "[", "9", "2", "m">>
ansiBrightYellow == <<ESC, "[", "9", "3", "m">>

\* slog's level thresholds and built-in keys
LevelDebug == -4
LevelInfo == 0
LevelWarn == 4
LevelError == 8
TimeKey == <<"t", "i", "m", "e">>
LevelKey == <<"l", "e", "v", "e", "l">>
SourceKey == <<"s", "o", "u", "r", "c", "e">>
MessageKey == <<"m", "s", "g">>

-----------------------------------------------------------------------------
(* buffer.go: a buffer is a byte slice: its bytes, its length, its capacity *)

initialBufferSize == 1024
maxBufferSize == 16384

\* The capacity Go's append gives a slice of capacity oldCap that must hold
\* newLen elements (the runtime's growth rule, before size-class rounding).
RECURSIVE GrowLoop(_, _)
GrowLoop(newcap, newLen) ==
    LET n == newcap + ((newcap + 3 * 256) \div 4)
    IN IF n >= newLen THEN n ELSE GrowLoop(n, newLen)

nextslicecap(newLen, oldCap) ==
    IF newLen > oldCap + oldCap THEN newLen
    ELSE IF oldCap < 256 THEN oldCap + oldCap
    ELSE GrowLoop(oldCap, newLen)

\* *b = append(*b, str...)
WriteString(b, str) ==
    LET newLen == b.len + ByteLen(str)
    IN [data |-> b.data \o str, len |-> newLen,
        cap |-> IF newLen > b.cap THEN nextslicecap(newLen, b.cap) ELSE b.cap]

WriteChar(b, char) == WriteString(b, <<char>>)

WriteStringIf(b, ok, str) == IF ok THEN WriteString(b, str) ELSE b

\* bufPool.New
NewBuf == [data |-> <<>>, len |-> 0, cap |-> initialBufferSize]

\* a buffer address that is not in use
NoBuf == [data |-> <<>>, len |-> 0, cap |-> 0]

-----------------------------------------------------------------------------
(* Go slices of strings: a slice is (array, len, cap); arrays live in a heap *)

NilSlice == [arr |-> 0, len |-> 0, cap |-> 0]

\* the elements a slice shows
SliceElems(heap, s) == IF s.len = 0 THEN <<>> ELSE SubSeq(heap[s.arr], 1, s.len)

\* append(s, x): in place when the capacity allows, else into a fresh array of
\* the grown capacity.  Returns the heap and the new slice.
SliceAppend(heap, s, x) ==
    IF s.len < s.cap
    THEN [heap |-> [heap EXCEPT ![s.arr] =
                       SubSeq(@, 1, s.len) \o <<x>> \o SubSeq(@, s.len + 2, s.cap)],
          slice |-> [s EXCEPT !.len = s.len + 1]]
    ELSE LET c == nextslicecap(s.len + 1, s.cap)
             a == SliceElems(heap, s) \o <<x>> \o [i \in 1..(c - s.len - 1) |-> <<>>]
         IN [heap |-> Append(heap, a),
             slice |-> [arr |-> Len(heap) + 1, len |-> s.len + 1, cap |-> c]]

-----------------------------------------------------------------------------
(* slog values and attributes *)

StringValue(s) == [kind |-> "String", s |-> s]
Int64Value(s) == [kind |-> "Int64", s |-> s]       \* s: its decimal text
TimeValue(t) == [kind |-> "Time", t |-> t]
GroupValue(as) == [kind |-> "Group", attrs |-> as]
LogValuerValue(v) == [kind |-> "LogValuer", inner |-> v]
\* KindAny, by the dynamic type of the value held
NilValue == [kind |-> "Any", dyn |-> "nil"]
ErrorValue(msg) == [kind |-> "Any", dyn |-> "error", s |-> msg]
TextValue(s, ok) == [kind |-> "Any", dyn |-> "TextMarshaler", s |-> s, ok |-> ok]
LevelValue(l) == [kind |-> "Any", dyn |-> "Level", level |-> l]
SourceValue(src) == [kind |-> "Any", dyn |-> "Source", s |-> src]
OtherValue(s) == [kind |-> "Any", dyn |-> "other", s |-> s]   \* s: its %+v text

Attr(k, v) == [key |-> k, value |-> v]

\* slog.Attr{}
EmptyAttr == Attr(<<>>, NilValue)

\* Value.Resolve: call LogValue until the value is no LogValuer
RECURSIVE Resolve(_)
Resolve(v) == IF v.kind = "LogValuer" THEN Resolve(v.inner) ELSE v

-----------------------------------------------------------------------------
(* handler.go: rendering of values *)

\* unicode.IsSpace and unicode.IsPrint on the bytes the model uses
IsSpace(c) == c \in {" ", "\t", "\n", "\r"}
IsPrint(c) == c \notin {ESC, "\t", "\n", "\r"}

needsQuoting(s) ==
    \/ Len(s) = 0
    \/ \E i \in 1..Len(s) :
          IsSpace(s[i]) \/ s[i] = "\"" \/ s[i] = "=" \/ ~IsPrint(s[i])

\* strconv.AppendQuote: a double-quoted Go string literal
QuoteByte(c) ==
    CASE c = "\"" -> <<"\\", "\"">>
      [] c = "\\" -> <<"\\", "\\">>
      [] c = "\n" -> <<"\\", "n">>
      [] c = "\r" -> <<"\\", "r">>
      [] c = "\t" -> <<"\\", "t">>
      [] c = ESC -> <<"\\", "x", "1", "b">>
      [] OTHER -> <<c>>

Quote(s) == <<"\"">> \o Flatten([i \in 1..Len(s) |-> QuoteByte(s[i])]) \o <<"\"">>

appendString(buf, s, quote) ==
    IF quote /\ needsQuoting(s) THEN WriteString(buf, Quote(s))
    ELSE WriteString(buf, s)

\* strconv.AppendInt(_, n, 10)
Digit(d) == <<"0", "1", "2", "3", "4", "5", "6", "7", "8", "9">>[d + 1]

RECURSIVE Digits(_)
Digits(n) == IF n < 10 THEN <<Digit(n)>> ELSE Digits(n \div 10) \o <<Digit(n % 10)>>

Itoa(n) == IF n < 0 THEN <<"-">> \o Digits(0 - n) ELSE Digits(n)

\* appendLevelDelta without the sign of a positive delta
appendLevelDeltaNoPlus(buf, delta) ==
    IF delta = 0 THEN buf ELSE WriteString(buf, Itoa(delta))

appendLevelDelta(buf, delta) ==
    IF delta = 0 THEN buf
    ELSE WriteString(IF delta > 0 THEN WriteChar(buf, "+") ELSE buf, Itoa(delta))

\* one case of appendLevel's switch
LevelCase(buf, noColor, color, label, delta) ==
    WriteStringIf(
        appendLevelDelta(WriteString(WriteStringIf(buf, ~noColor, color), label), delta),
        ~noColor, ansiReset)

appendLevel(buf, noColor, level) ==
    IF level < LevelInfo
    THEN LevelCase(buf, noColor, ansiBrightMagentaFaint, <<"D", "B", "G">>, level - LevelDebug)
    ELSE IF level < LevelWarn
    THEN LevelCase(buf, noColor, ansiBrightGreen, <<"I", "N", "F">>, level - LevelInfo)
    ELSE IF level < LevelError
    THEN LevelCase(buf, noColor, ansiBrightYellow, <<"W", "R", "N">>, level - LevelWarn)
    ELSE LevelCase(buf, noColor, ansiBrightRed, <<"E", "R", "R">>, level - LevelError)

\* t.AppendFormat(_, h.timeFormat) and t.String(): the model has one non-zero
\* instant, whose two texts differ
FormatTime(t) == <<"T", Digit(t)>>
TimeString(t) == <<"T", Digit(t), "Z">>

appendTime(buf, noColor, t) ==
    WriteStringIf(WriteString(WriteStringIf(buf, ~noColor, ansiFaint), FormatTime(t)),
                  ~noColor, ansiReset)

\* a source location is [dir, file, line]: filepath.Base of the directory,
\* the file name and the line number
appendSource(buf, noColor, src) ==
    LET b1 == WriteStringIf(buf, ~noColor, ansiFaint)
        b2 == WriteString(b1, src.dir \o <<"/">> \o src.file)
        b3 == WriteChar(b2, ":")
        b4 == WriteString(b3, Itoa(src.line))
    IN WriteStringIf(b4, ~noColor, ansiReset)

\* appendKey writing the key without the prefix of its groups
appendKeyNoGroups(buf, noColor, key, groups) ==
    LET b1 == WriteStringIf(buf, ~noColor, ansiFaint)
        b2 == appendString(b1, key, TRUE)
        b3 == WriteChar(b2, "=")
    IN WriteStringIf(b3, ~noColor, ansiReset)

appendKey(buf, noColor, key, groups) ==
    LET b1 == WriteStringIf(buf, ~noColor, ansiFaint)
        b2 == appendString(b1, groups \o key, TRUE)
        b3 == WriteChar(b2, "=")
    IN WriteStringIf(b3, ~noColor, ansiReset)

\* appendValue writing a text for the failure of MarshalText
appendValueErrText(buf, noColor, v, quote) ==
    IF v.kind = "Any" /\ v.dyn = "TextMarshaler" /\ ~v.ok
    THEN appendString(buf, <<"!", "E", "R", "R", "O", "R">>, quote)
    ELSE IF v.kind = "String" THEN appendString(buf, v.s, quote)
    ELSE IF v.kind = "Int64" THEN WriteString(buf, v.s)
    ELSE IF v.kind = "Any" /\ v.dyn = "TextMarshaler" THEN appendString(buf, v.s, quote)
    ELSE IF v.kind = "Any" /\ v.dyn = "Level" THEN appendLevel(buf, noColor, v.level)
    ELSE IF v.kind = "Any" /\ v.dyn = "Source" THEN appendSource(buf, noColor, v.s)
    ELSE IF v.kind = "Time" THEN appendString(buf, TimeString(v.t), quote)
    ELSE buf

appendValue(buf, noColor, v, quote) ==
    CASE v.kind = "String" -> appendString(buf, v.s, quote)
      [] v.kind = "Int64" -> WriteString(buf, v.s)
      [] v.kind = "Time" -> appendString(buf, TimeString(v.t), quote)
      [] v.kind = "Any" /\ v.dyn = "Level" -> appendLevel(buf, noColor, v.level)
      [] v.kind = "Any" /\ v.dyn = "TextMarshaler" ->
             IF ~v.ok THEN buf ELSE appendString(buf, v.s, quote)
      [] v.kind = "Any" /\ v.dyn = "Source" -> appendSource(buf, noColor, v.s)
      [] v.kind = "Any" /\ v.dyn = "nil" -> appendString(buf, <<"<", "n", "i", "l", ">">>, quote)
      [] v.kind = "Any" -> appendString(buf, v.s, quote)
      [] OTHER -> buf

appendError(buf, noColor, err, attrKey, groupsPrefix) ==
    LET b1 == WriteStringIf(buf, ~noColor, ansiBrightRedFaint)
        b2 == appendString(b1, groupsPrefix \o attrKey, TRUE)
        b3 == WriteChar(b2, "=")
        b4 == WriteStringIf(b3, ~noColor, ansiResetFaint)
        b5 == appendString(b4, err, TRUE)
    IN WriteStringIf(b5, ~noColor, ansiReset)

-----------------------------------------------------------------------------
(* The ReplaceAttr callbacks the model configures a handler with *)

\* "nil": no callback; "id": returns the attribute as given; "drop": the
\* callback of the package documentation, extended to all four built-in keys
\* (drops a built-in attribute outside any group)
Rep(name, groups, a) ==
    IF name = "drop" /\ Len(groups) = 0 /\ a.key \in {TimeKey, LevelKey, SourceKey, MessageKey}
    THEN EmptyAttr
    ELSE a

-----------------------------------------------------------------------------
(* handler.appendAttr: flattening of one attribute *)

\* st is [buf, heap, calls]: the buffer written to, the heap of backing
\* arrays, and the invocations of the callback so far
RECURSIVE appendAttr(_, _, _, _, _), appendAttrs(_, _, _, _, _)
appendAttr(st, h, attr, groupsPrefix, groups) ==
    LET a1 == [attr EXCEPT !.value = Resolve(@)]
        called == h.replaceAttr # "nil" /\ a1.value.kind # "Group"
        seen == SliceElems(st.heap, groups)
        a2 == IF called
              THEN LET r == Rep(h.replaceAttr, seen, a1) IN [r EXCEPT !.value = Resolve(@)]
              ELSE a1
        st1 == IF called
               THEN [st EXCEPT !.calls = Append(@, [groups |-> seen, attr |-> a1])]
               ELSE st
    IN IF a2 = EmptyAttr THEN st1
       ELSE IF a2.value.kind = "Group"
       THEN LET named == a2.key # <<>>
                ap == IF named THEN SliceAppend(st1.heap, groups, a2.key)
                      ELSE [heap |-> st1.heap, slice |-> groups]
                pfx == IF named THEN groupsPrefix \o a2.key \o <<".">> ELSE groupsPrefix
            IN appendAttrs([st1 EXCEPT !.heap = ap.heap], h, a2.value.attrs, pfx, ap.slice)
       ELSE IF a2.value.kind = "Any" /\ a2.value.dyn = "error"
       THEN [st1 EXCEPT !.buf = WriteChar(
                appendError(st1.buf, h.noColor, a2.value.s, a2.key, groupsPrefix), " ")]
       ELSE [st1 EXCEPT !.buf = WriteChar(
                appendValue(appendKey(st1.buf, h.noColor, a2.key, groupsPrefix),
                            h.noColor, a2.value, TRUE), " ")]

\* the loops over attributes (Handle's r.Attrs, WithAttrs' range, appendAttr's
\* range over a group)
appendAttrs(st, h, attrs, groupsPrefix, groups) ==
    IF attrs = <<>> THEN st
    ELSE appendAttrs(appendAttr(st, h, Head(attrs), groupsPrefix, groups),
                     h, Tail(attrs), groupsPrefix, groups)

-----------------------------------------------------------------------------
(* handler.go: the handler object *)

\* NewHandler(w, opts); every handler of the model writes to the one writer w
NewHandler(opts) ==
    [attrsPrefix |-> <<>>, groupPrefix |-> <<>>, groups |-> NilSlice, mu |-> 0,
     addSource |-> opts.addSource, replaceAttr |-> opts.replaceAttr,
     noColor |-> opts.noColor]

\* clone: a new object with the fields copied; mu is not copied, the new
\* object has its own unlocked mutex
clone(h) ==
    [attrsPrefix |-> h.attrsPrefix, groupPrefix |-> h.groupPrefix, groups |-> h.groups,
     mu |-> 0,
     addSource |-> h.addSource, replaceAttr |-> h.replaceAttr, noColor |-> h.noColor]

\* the frame runtime.CallersFrames finds for a record's PC (none for PC 0)
Frame(pc) ==
    IF pc = 0 THEN [dir |-> <<>>, file |-> <<>>, line |-> 0]
    ELSE [dir |-> <<"d">>, file |-> <<"f", ".", "g", "o">>, line |-> 7]

\* one built-in attribute passed through the callback: logs the invocation
\* and, unless the callback emptied the key, writes the value and a space
Builtin(st, h, a0) ==
    LET a == Rep(h.replaceAttr, <<>>, a0)
        st1 == [st EXCEPT !.calls = Append(@, [groups |-> <<>>, attr |-> a0])]
    IN IF a.key = <<>> THEN st1
       ELSE [st1 EXCEPT !.buf = WriteChar(
                IF a0.key = TimeKey /\ a.value.kind = "Time"
                THEN appendTime(st1.buf, h.noColor, a.value.t)
                ELSE appendValue(st1.buf, h.noColor, a.value, FALSE), " ")]

\* Handle, "write time"
HandleTime(st, h, r) ==
    IF r.time = 0 THEN st
    ELSE IF h.replaceAttr = "nil"
    THEN [st EXCEPT !.buf = WriteChar(appendTime(st.buf, h.noColor, r.time), " ")]
    ELSE Builtin(st, h, Attr(TimeKey, TimeValue(r.time)))

\* Handle, "write level"
HandleLevel(st, h, r) ==
    IF h.replaceAttr = "nil"
    THEN [st EXCEPT !.buf = WriteChar(appendLevel(st.buf, h.noColor, r.level), " ")]
    ELSE Builtin(st, h, Attr(LevelKey, LevelValue(r.level)))

\* Handle, "write source"
HandleSource(st, h, r) ==
    IF ~h.addSource \/ Frame(r.pc).file = <<>> THEN st
    ELSE IF h.replaceAttr = "nil"
    THEN [st EXCEPT !.buf = WriteChar(appendSource(st.buf, h.noColor, Frame(r.pc)), " ")]
    ELSE Builtin(st, h, Attr(SourceKey, SourceValue(Frame(r.pc))))

\* Handle, "write message"
HandleMessage(st, h, r) ==
    IF h.replaceAttr = "nil"
    THEN [st EXCEPT !.buf = WriteChar(WriteString(st.buf, r.message), " ")]
    ELSE Builtin(st, h, Attr(MessageKey, StringValue(r.message)))

\* Handle, "write handler attributes"
HandlePrefix(st, h) ==
    IF Len(h.attrsPrefix) > 0
    THEN [st EXCEPT !.buf = WriteString(st.buf, h.attrsPrefix)]
    ELSE st

\* Handle up to the test of len(*buf): everything rendered into buf
RenderRecord(buf, heap, h, r) ==
    LET s0 == [buf |-> buf, heap |-> heap, calls |-> <<>>]
        s1 == HandleTime(s0, h, r)
        s2 == HandleLevel(s1, h, r)
        s3 == HandleSource(s2, h, r)
        s4 == HandleMessage(s3, h, r)
        s5 == HandlePrefix(s4, h)
    IN appendAttrs(s5, h, r.attrs, h.groupPrefix, h.groups)

\* the line terminator written after the last byte instead of over it
ReplaceLastAppended(buf) ==
    [buf EXCEPT !.data = buf.data \o <<"\n">>, !.len = buf.len + 1]

\* (*buf)[len(*buf)-1] = '\n'
ReplaceLast(buf) ==
    [buf EXCEPT !.data = SubSeq(buf.data, 1, Len(buf.data) - 1) \o <<"\n">>]

-----------------------------------------------------------------------------
(* buffer.go: the pool *)

BufIds == 1..MaxBufs

Held(b) == \E t \in Threads : thr[t].buf = b

\* buffer addresses not reachable from the pool or a goroutine
FreeIds == {b \in BufIds : pool[b] = 0 /\ ~Held(b)}

MinOf(S) == CHOOSE x \in S : \A y \in S : x <= y

\* what bufPool.Get may return: a pooled buffer, or a new one from New
\* (0 stands for the call of New)
GetChoices == {b \in BufIds : pool[b] > 0} \cup (IF FreeIds = {} THEN {} ELSE {0})

\* newBuffer with the choice c made: [id, bufs, pool] after the Get
newBuffer(c) ==
    IF c = 0
    THEN [id |-> MinOf(FreeIds), bufs |-> [bufs EXCEPT ![MinOf(FreeIds)] = NewBuf], pool |-> pool]
    ELSE [id |-> c, bufs |-> bufs, pool |-> [pool EXCEPT ![c] = @ - 1]]

\* Free putting the buffer back as it is, whatever its length and capacity
FreeAsIs(bs, pl, id, b) ==
    [bufs |-> [bs EXCEPT ![id] = b], pool |-> [pl EXCEPT ![id] = @ + 1]]

\* b.Free() on the buffer at address id holding value b: [bufs, pool] after
Free(bs, pl, id, b) ==
    IF b.cap <= maxBufferSize
    THEN [bufs |-> [bs EXCEPT ![id] = [b EXCEPT !.data = <<>>, !.len = 0]],
          pool |-> [pl EXCEPT ![id] = @ + 1]]
    ELSE [bufs |-> [bs EXCEPT ![id] = NoBuf], pool |-> pl]

-----------------------------------------------------------------------------
(* The goroutines and their calls *)

NoRec == [time |-> 0, level |-> 0, pc |-> 0, message |-> <<>>, attrs |-> <<>>]

NoRet == [kind |-> "none"]
ErrRet(e) == [kind |-> "error", err |-> e]
HandlerRet(i) == [kind |-> "handler", h |-> i]

\* a goroutine outside any call.  Of a call it keeps: op, h, arg, rec (the call
\* and its arguments), buf (the buffer it holds), acq (the length of the buffer
\* newBuffer gave it), calls (the invocations of the callback), warg, werr,
\* nwrites (the argument, result and number of its calls of Write), nfree (the
\* number of its calls of Free) and ret (what it returned)
Idle ==
    [pc |-> "idle", op |-> "none", h |-> 0, arg |-> <<>>, buf |-> 0, rec |-> NoRec,
     acq |-> 0, calls |-> <<>>, warg |-> <<>>, werr |-> "nil", nwrites |-> 0,
     nfree |-> 0, ret |-> NoRet]

\* a goroutine whose call op(arg) on handler i has just returned ret, having
\* called Free nfree times
Returned(op, i, arg, ret, nfree) ==
    [Idle EXCEPT !.pc = "returned", !.op = op, !.h = i, !.arg = arg, !.ret = ret,
                 !.nfree = nfree]

\* what w.Write may return
WriteErrors == {"nil", "EIO"}

\* the state after NewHandler(w, opts), for some opts of Options; Levels are
\* the levels appendLevel is tried on
InitWith(Options, Levels) ==
    /\ \E opts \in Options : handlers = <<NewHandler(opts)>>
    /\ arrays = <<>>
    /\ bufs = [b \in BufIds |-> NoBuf]
    /\ pool = [b \in BufIds |-> 0]
    /\ thr = [t \in Threads |-> Idle]
    /\ hist = <<[names |-> <<>>, attached |-> <<>>]>>
    /\ levelIn \in Levels
    /\ levelOut = <<>>

\* WithGroup without the test for the empty name
WithGroupAlwaysClone(t, i, name) ==
    /\ thr[t].pc = "idle"
    /\ UNCHANGED <<bufs, pool, levelIn, levelOut>>
    /\ LET h2 == clone(handlers[i])
           ap == SliceAppend(arrays, h2.groups, name)
       IN /\ handlers' = Append(handlers,
                 [h2 EXCEPT !.groupPrefix = @ \o name \o <<".">>, !.groups = ap.slice])
          /\ arrays' = ap.heap
          /\ hist' = Append(hist, [hist[i] EXCEPT !.names = Append(@, name)])
          /\ thr' = [thr EXCEPT ![t] =
                 Returned("WithGroup", i, name, HandlerRet(Len(handlers) + 1), 0)]

\* WithGroup(name) on handler i by goroutine t
WithGroup(t, i, name) ==
    /\ thr[t].pc = "idle"
    /\ UNCHANGED <<bufs, pool, levelIn, levelOut>>
    /\ IF name = <<>>
       THEN /\ thr' = [thr EXCEPT ![t] = Returned("WithGroup", i, name, HandlerRet(i), 0)]
            /\ UNCHANGED <<handlers, arrays, hist>>
       ELSE LET h2 == clone(handlers[i])
                ap == SliceAppend(arrays, h2.groups, name)
            IN /\ handlers' = Append(handlers,
                      [h2 EXCEPT !.groupPrefix = @ \o name \o <<".">>, !.groups = ap.slice])
               /\ arrays' = ap.heap
               /\ hist' = Append(hist, [hist[i] EXCEPT !.names = Append(@, name)])
               /\ thr' = [thr EXCEPT ![t] =
                      Returned("WithGroup", i, name, HandlerRet(Len(handlers) + 1), 0)]

\* WithAttrs(attrs) on handler i by goroutine t; c is what bufPool.Get returns
WithAttrs(t, i, attrs, c) ==
    /\ thr[t].pc = "idle"
    /\ UNCHANGED <<levelIn, levelOut>>
    /\ IF Len(attrs) = 0
       THEN /\ thr' = [thr EXCEPT ![t] = Returned("WithAttrs", i, attrs, HandlerRet(i), 0)]
            /\ UNCHANGED <<handlers, arrays, hist, bufs, pool>>
       ELSE /\ c \in GetChoices
            /\ LET h == handlers[i]
                   h2 == clone(h)
                   nb == newBuffer(c)
                   st == appendAttrs([buf |-> nb.bufs[nb.id], heap |-> arrays, calls |-> <<>>],
                                     h, attrs, h.groupPrefix, h.groups)
                   fr == Free(nb.bufs, nb.pool, nb.id, st.buf)
               IN /\ handlers' = Append(handlers,
                         [h2 EXCEPT !.attrsPrefix = h.attrsPrefix \o st.buf.data])
                  \* arrays allocated by the flattening are garbage after the call
                  /\ arrays' = SubSeq(st.heap, 1, Len(arrays))
                  /\ hist' = Append(hist, [hist[i] EXCEPT
                         !.attached = Append(@, [names |-> hist[i].names, attrs |-> attrs])])
                  /\ bufs' = fr.bufs
                  /\ pool' = fr.pool
                  /\ thr' = [thr EXCEPT ![t] =
                         [Returned("WithAttrs", i, attrs, HandlerRet(Len(handlers) + 1), 1)
                             EXCEPT !.acq = nb.bufs[nb.id].len, !.calls = st.calls]]

\* Handle(r) on handler i by goroutine t, up to h.mu.Lock(): the buffer is
\* acquired and the record rendered; with nothing written the call returns
HandleRender(t, i, r, c) ==
    /\ thr[t].pc = "idle"
    /\ c \in GetChoices
    /\ UNCHANGED <<handlers, hist, levelIn, levelOut>>
    /\ LET nb == newBuffer(c)
           st == RenderRecord(nb.bufs[nb.id], arrays, handlers[i], r)
       IN /\ arrays' = SubSeq(st.heap, 1, Len(arrays))
          /\ IF st.buf.len = 0
             THEN LET fr == Free(nb.bufs, nb.pool, nb.id, st.buf)
                  IN /\ bufs' = fr.bufs
                     /\ pool' = fr.pool
                     /\ thr' = [thr EXCEPT ![t] =
                            [Returned("Handle", i, <<>>, ErrRet("nil"), 1) EXCEPT
                                !.rec = r, !.acq = nb.bufs[nb.id].len, !.calls = st.calls]]
             ELSE /\ bufs' = [nb.bufs EXCEPT ![nb.id] = ReplaceLast(st.buf)]
                  /\ pool' = nb.pool
                  /\ thr' = [thr EXCEPT ![t] =
                         [Idle EXCEPT !.pc = "rendered", !.op = "Handle", !.h = i,
                                      !.buf = nb.id, !.rec = r, !.acq = nb.bufs[nb.id].len,
                                      !.calls = st.calls]]

\* h.mu.Lock()
HandleLock(t) ==
    /\ thr[t].pc = "rendered"
    /\ handlers[thr[t].h].mu = 0
    /\ handlers' = [handlers EXCEPT ![thr[t].h].mu = t]
    /\ thr' = [thr EXCEPT ![t].pc = "locked"]
    /\ UNCHANGED <<arrays, bufs, pool, hist, levelIn, levelOut>>

\* h.w.Write(*buf) is called
HandleWrite(t) ==
    /\ thr[t].pc = "locked"
    /\ thr' = [thr EXCEPT ![t].pc = "writing", ![t].warg = bufs[thr[t].buf].data,
                          ![t].nwrites = @ + 1]
    /\ UNCHANGED <<handlers, arrays, bufs, pool, hist, levelIn, levelOut>>

\* h.w.Write returns err
HandleWriteReturn(t, err) ==
    /\ thr[t].pc = "writing"
    /\ thr' = [thr EXCEPT ![t].pc = "written", ![t].werr = err]
    /\ UNCHANGED <<handlers, arrays, bufs, pool, hist, levelIn, levelOut>>

\* return err: the deferred h.mu.Unlock() runs first
HandleUnlock(t) ==
    /\ thr[t].pc = "written"
    /\ handlers' = [handlers EXCEPT ![thr[t].h].mu = 0]
    /\ thr' = [thr EXCEPT ![t].pc = "unlocked"]
    /\ UNCHANGED <<arrays, bufs, pool, hist, levelIn, levelOut>>

\* HandleFree returning success whatever Write returned
HandleFreeSwallow(t) ==
    /\ thr[t].pc = "unlocked"
    /\ LET fr == Free(bufs, pool, thr[t].buf, bufs[thr[t].buf])
       IN /\ bufs' = fr.bufs
          /\ pool' = fr.pool
    /\ thr' = [thr EXCEPT ![t] =
           [@ EXCEPT !.pc = "returned", !.buf = 0, !.ret = ErrRet("nil"), !.nfree = @ + 1]]
    /\ UNCHANGED <<handlers, arrays, hist, levelIn, levelOut>>

\* then the deferred buf.Free(), and the call returns err
HandleFree(t) ==
    /\ thr[t].pc = "unlocked"
    /\ LET fr == Free(bufs, pool, thr[t].buf, bufs[thr[t].buf])
       IN /\ bufs' = fr.bufs
          /\ pool' = fr.pool
    /\ thr' = [thr EXCEPT ![t] =
           [@ EXCEPT !.pc = "returned", !.buf = 0, !.ret = ErrRet(thr[t].werr),
                     !.nfree = @ + 1]]
    /\ UNCHANGED <<handlers, arrays, hist, levelIn, levelOut>>

\* Handle(r) on handler i by goroutine t, run from call to return with no other
\* goroutine in between: rendering, Lock, Write (returning err), Unlock, Free
Handle(t, i, r, c, err) ==
    /\ thr[t].pc = "idle"
    /\ c \in GetChoices
    /\ handlers[i].mu = 0
    /\ UNCHANGED <<handlers, hist, levelIn, levelOut>>
    /\ LET nb == newBuffer(c)
           st == RenderRecord(nb.bufs[nb.id], arrays, handlers[i], r)
           line == ReplaceLast(st.buf)
           fr == Free(nb.bufs, nb.pool, nb.id, IF st.buf.len = 0 THEN st.buf ELSE line)
       IN /\ arrays' = SubSeq(st.heap, 1, Len(arrays))
          /\ bufs' = fr.bufs
          /\ pool' = fr.pool
          /\ thr' = [thr EXCEPT ![t] =
                 IF st.buf.len = 0
                 THEN [Returned("Handle", i, <<>>, ErrRet("nil"), 1) EXCEPT
                          !.rec = r, !.acq = nb.bufs[nb.id].len, !.calls = st.calls]
                 ELSE [Returned("Handle", i, <<>>, ErrRet(err), 1) EXCEPT
                          !.rec = r, !.acq = nb.bufs[nb.id].len, !.calls = st.calls,
                          !.warg = line.data, !.werr = err, !.nwrites = 1]]

\* the caller has the result of the call and is free to make the next one
Return(t) ==
    /\ thr[t].pc = "returned"
    /\ thr' = [thr EXCEPT ![t] = Idle]
    /\ UNCHANGED <<handlers, arrays, bufs, pool, hist, levelIn, levelOut>>

\* appendLevel applied to the level drawn by InitLevel
RenderLevel(noColor) ==
    /\ levelOut = <<>>
    /\ levelOut' = appendLevel(NewBuf, noColor, levelIn).data
    /\ UNCHANGED <<handlers, arrays, bufs, pool, thr, hist, levelIn>>

-----------------------------------------------------------------------------
(* The inputs the calls are made with *)

Opt(addSource, replaceAttr, noColor) ==
    [addSource |-> addSource, replaceAttr |-> replaceAttr, noColor |-> noColor]

Rec(time, level, pc, message, attrs) ==
    [time |-> time, level |-> level, pc |-> pc, message |-> message, attrs |-> attrs]

Ka == Attr(<<"k">>, StringValue(<<"v">>))
Kx == Attr(<<"x">>, Int64Value(<<"7">>))
Kq == Attr(<<"q">>, StringValue(<<"a", " ", "b">>))
Kerr == Attr(<<"e">>, ErrorValue(<<"b", "a", "d">>))
KtextOk == Attr(<<"m">>, TextValue(<<"t">>, TRUE))
KtextFail == Attr(<<"m">>, TextValue(<<"t">>, FALSE))
Kbig == Attr(<<"k">>, StringValue(<<Blk>>))
Greq == Attr(<<"r">>, GroupValue(<<Ka>>))
Ginline == Attr(<<>>, GroupValue(<<Ka>>))
Gnested == Attr(<<"r">>, GroupValue(<<Attr(<<"n">>, GroupValue(<<Ka>>)), Kx>>))
Glazy == Attr(<<"l">>, LogValuerValue(GroupValue(<<Kx>>)))

Hello == <<"h", "i">>

\* Spec: goroutines in parallel, few handlers; the callback drops the level and
\* the message, so that a record without attributes renders to nothing at the
\* root handler, and Kbig renders to a line longer than maxBufferSize
ConcOptions == {Opt(FALSE, "drop", TRUE)}
ConcNames == {<<>>, <<"a">>}
ConcAttrLists == {<<>>, <<Ka>>}
ConcRecords == {Rec(0, LevelInfo, 0, Hello, <<>>), Rec(0, LevelInfo, 0, Hello, <<Kbig>>)}

\* SpecFlat: one goroutine, few handlers, the shapes of attributes
FlatOptions == {Opt(FALSE, "nil", TRUE), Opt(FALSE, "id", TRUE), Opt(TRUE, "drop", TRUE),
                Opt(TRUE, "nil", FALSE)}
FlatNames == {<<>>, <<"a">>, <<"b">>}
FlatAttrLists == {<<>>, <<Ka>>, <<Greq, Kx>>, <<Ginline, Kx>>, <<Gnested, Ka>>,
                  <<KtextFail, Ka>>, <<Kerr, KtextOk>>, <<Glazy, EmptyAttr, Kq>>}
FlatWithAttrs == {<<>>, <<Ka>>, <<Gnested, Kx>>, <<KtextFail>>}
FlatRecords == {Rec(1, LevelInfo + 2, 1, Hello, as) : as \in FlatAttrLists}
                   \cup {Rec(0, LevelWarn, 0, <<>>, <<>>)}

\* SpecTree: one goroutine, deeper trees of handlers
TreeOptions == {Opt(FALSE, "id", TRUE)}
TreeNames == {<<"a">>, <<"b">>}
TreeAttrLists == {<<Greq>>}
TreeRecords == {Rec(0, LevelInfo, 0, Hello, <<Greq>>)}

-----------------------------------------------------------------------------
(* The specifications *)

Init == InitWith(ConcOptions, {0})

Next ==
    \E t \in Threads :
        \/ \E i \in 1..Len(handlers), name \in ConcNames :
              Len(handlers) < MaxConcHandlers /\ WithGroup(t, i, name)
        \/ \E i \in 1..Len(handlers), attrs \in ConcAttrLists, c \in {0} \cup BufIds :
              Len(handlers) < MaxConcHandlers /\ WithAttrs(t, i, attrs, c)
        \/ \E i \in 1..Len(handlers), r \in ConcRecords, c \in {0} \cup BufIds :
              HandleRender(t, i, r, c)
        \/ HandleLock(t)
        \/ HandleWrite(t)
        \/ \E err \in WriteErrors : HandleWriteReturn(t, err)
        \/ HandleUnlock(t)
        \/ HandleFree(t)
        \/ Return(t)

Spec == Init /\ [][Next]_vars

\* bufPool.Get with a single goroutine: the buffer it put last, if any
SeqGet == IF \E b \in BufIds : pool[b] > 0 THEN MinOf({b \in BufIds : pool[b] > 0}) ELSE 0

\* one goroutine's calls, with the inputs, the results of Write and the number
\* of handlers given
SeqNext(Names, AttrLists, Records, Errors, maxHandlers) ==
    \/ \E i \in 1..Len(handlers), name \in Names :
          Len(handlers) < maxHandlers /\ WithGroup(1, i, name)
    \/ \E i \in 1..Len(handlers), attrs \in AttrLists :
          Len(handlers) < maxHandlers /\ WithAttrs(1, i, attrs, SeqGet)
    \/ \E i \in 1..Len(handlers), r \in Records, err \in Errors :
          Handle(1, i, r, SeqGet, err)
    \/ Return(1)

InitFlat == InitWith(FlatOptions, {0})
NextFlat == SeqNext(FlatNames, FlatWithAttrs, FlatRecords, WriteErrors, MaxFlatHandlers)
SpecFlat == InitFlat /\ [][NextFlat]_vars

InitTree == InitWith(TreeOptions, {0})
NextTree == SeqNext(TreeNames, TreeAttrLists, TreeRecords, {"nil"}, MaxHandlers)
SpecTree == InitTree /\ [][NextTree]_vars

InitLevel == InitWith({Opt(FALSE, "nil", TRUE)}, (0 - MaxLevel)..MaxLevel)
NextLevel == \E noColor \in BOOLEAN : RenderLevel(noColor)
SpecLevel == InitLevel /\ [][NextLevel]_vars

-----------------------------------------------------------------------------
(* What the handlers show *)

\* the fields of handler i that WithAttrs and WithGroup set, with the elements
\* its groups slice shows
Snapshot(i) ==
    [attrsPrefix |-> handlers[i].attrsPrefix,
     groupPrefix |-> handlers[i].groupPrefix,
     groups |-> SliceElems(arrays, handlers[i].groups)]

\* goroutine t makes a call of op in this step, from call to return
Calls(t, op) == thr[t].pc = "idle" /\ thr'[t].pc = "returned" /\ thr'[t].op = op

\* goroutine t has returned from a call of op
Done(t, op) == thr[t].pc = "returned" /\ thr[t].op = op

-----------------------------------------------------------------------------
(* C1 *)

\* C1: writes to the shared writer are mutually exclusive: at most one
\* goroutine is inside w.Write at any time, whichever handlers of the tree the
\* goroutines call Handle on.
MutualExclusion == Cardinality({t \in Threads : thr[t].pc = "writing"}) <= 1

-----------------------------------------------------------------------------
(* C2 *)

\* C2: a call of WithGroup or WithAttrs leaves the attributes prefix, the
\* group prefix and the group names of every handler that exists unchanged.
SnapshotsImmutable ==
    [][(\E t \in Threads : Calls(t, "WithGroup") \/ Calls(t, "WithAttrs"))
          => \A i \in 1..Len(handlers) : Snapshot(i)' = Snapshot(i)]_vars

-----------------------------------------------------------------------------
(* C3 *)

\* C3: Handle calls Write at most once per record, with the whole rendered
\* line (the buffer, ending in a newline), and returns exactly what Write
\* returned: nil without a write or after a successful one, the error after a
\* failed one, with no second write.
WriteErrorReturned ==
    \A t \in Threads :
        /\ thr[t].nwrites <= 1
        /\ thr[t].pc = "writing" =>
              /\ thr[t].warg = bufs[thr[t].buf].data
              /\ thr[t].warg[Len(thr[t].warg)] = "\n"
        /\ Done(t, "Handle") =>
              /\ thr[t].ret = ErrRet(thr[t].werr)
              /\ thr[t].nwrites = 0 => thr[t].ret = ErrRet("nil")

\* a Handle whose one write failed has returned that error
WriteErrorReturnedWitness ==
    \E t \in Threads :
        Done(t, "Handle") /\ thr[t].nwrites = 1 /\ thr[t].werr = "EIO"
            /\ thr[t].ret = ErrRet("EIO")

-----------------------------------------------------------------------------
(* C4 *)

\* what appendLevel wrote, without the colour around it
LevelText ==
    IF levelOut # <<>> /\ Head(levelOut) = ESC
    THEN LET start == (CHOOSE i \in 1..Len(levelOut) :
                          levelOut[i] = "m" /\ \A j \in 1..(i - 1) : levelOut[j] # "m") + 1
         IN SubSeq(levelOut, start, Len(levelOut) - Len(ansiReset))
    ELSE levelOut

DigitValue(c) == CHOOSE d \in 0..9 : Digit(d) = c

\* the number a text of decimal digits denotes
RECURSIVE ParseDigits(_)
ParseDigits(s) ==
    IF s = <<>> THEN 0
    ELSE 10 * ParseDigits(SubSeq(s, 1, Len(s) - 1)) + DigitValue(s[Len(s)])

IsDigits(s) == Len(s) > 0 /\ \A i \in 1..Len(s) : \E d \in 0..9 : s[i] = Digit(d)

\* the number a rendered delta denotes: nothing is 0, else a sign and digits
ParseDelta(s) ==
    IF s = <<>> THEN 0
    ELSE IF Head(s) = "+" THEN ParseDigits(Tail(s))
    ELSE 0 - ParseDigits(Tail(s))

\* the reference level of a label
LabelReference(label) ==
    CASE label = <<"D", "B", "G">> -> LevelDebug
      [] label = <<"I", "N", "F">> -> LevelInfo
      [] label = <<"W", "R", "N">> -> LevelWarn
      [] label = <<"E", "R", "R">> -> LevelError

\* C4: the label is DBG below Info, INF from Info below Warn, WRN from Warn
\* below Error and ERR from Error on; it is followed by nothing when the level
\* is the label's reference level and else by the signed decimal difference
\* ('+' or '-' and digits with no leading zero), so that reference plus
\* rendered delta is the level.
LevelLabelAndDelta ==
    levelOut # <<>> =>
        LET label == SubSeq(LevelText, 1, 3)
            delta == SubSeq(LevelText, 4, Len(LevelText))
        IN /\ label = (IF levelIn < LevelInfo THEN <<"D", "B", "G">>
                       ELSE IF levelIn < LevelWarn THEN <<"I", "N", "F">>
                       ELSE IF levelIn < LevelError THEN <<"W", "R", "N">>
                       ELSE <<"E", "R", "R">>)
           /\ (delta = <<>>) = (levelIn = LabelReference(label))
           /\ delta # <<>> =>
                 /\ Head(delta) = (IF levelIn > LabelReference(label) THEN "+" ELSE "-")
                 /\ IsDigits(Tail(delta))
                 /\ delta[2] # "0"
           /\ LabelReference(label) + ParseDelta(delta) = levelIn

\* Info+2 has been rendered as INF+2
LevelLabelAndDeltaWitness ==
    levelIn = LevelInfo + 2 /\ levelOut = <<"I", "N", "F", "+", "2">>

-----------------------------------------------------------------------------
(* What a call is expected to render *)

\* names joined with dots
JoinDots(names) ==
    Flatten([i \in 1..Len(names) |-> IF i = 1 THEN names[i] ELSE <<".">> \o names[i]])

\* the leaves of a list of attributes in order, each with its path: the names
\* in path followed by the non-empty keys of the groups around it
RECURSIVE Leaves(_, _)
Leaves(attrs, path) ==
    IF attrs = <<>> THEN <<>>
    ELSE LET a == Head(attrs)
             v == Resolve(a.value)
         IN (IF v.kind = "Group"
             THEN Leaves(v.attrs, IF a.key = <<>> THEN path ELSE Append(path, a.key))
             ELSE <<[path |-> path, attr |-> Attr(a.key, v)]>>)
            \o Leaves(Tail(attrs), path)

\* a leaf rendered under the one key that is its dotted path and own key
LeafText(noColor, leaf) ==
    LET key == JoinDots(Append(leaf.path, leaf.attr.key))
        v == leaf.attr.value
    IN IF leaf.attr = EmptyAttr THEN <<>>
       ELSE IF v.kind = "Any" /\ v.dyn = "error"
       THEN appendError(NewBuf, noColor, v.s, key, <<>>).data \o <<" ">>
       ELSE appendValue(appendKey(NewBuf, noColor, key, <<>>), noColor, v, TRUE).data \o <<" ">>

LeavesText(noColor, leaves) ==
    Flatten([n \in 1..Len(leaves) |-> LeafText(noColor, leaves[n])])

\* the attributes attached to handler i by WithAttrs, each list under the
\* WithGroup names in force when it was attached
AttachedText(i) ==
    Flatten([n \in 1..Len(hist[i].attached) |->
        LeavesText(handlers[i].noColor,
                   Leaves(hist[i].attached[n].attrs, hist[i].attached[n].names))])

\* what Handle renders before the attributes
Header(i, r) ==
    RenderRecord(NewBuf, arrays, [handlers[i] EXCEPT !.attrsPrefix = <<>>],
                 [r EXCEPT !.attrs = <<>>]).buf.data

\* a line: the text with its last byte, the separator, made the newline
Line(text) == SubSeq(text, 1, Len(text) - 1) \o <<"\n">>

-----------------------------------------------------------------------------
(* C5 *)

\* C5: every leaf attribute is rendered under the key made of the WithGroup
\* names the handler had when the attribute was attached (by WithAttrs, or in
\* the record), the non-empty keys of the groups around it, and its own key,
\* joined with dots; so a group with an empty key adds no level, a WithGroup
\* after a WithAttrs leaves the attached keys alone, and the attributes after
\* a group do not get its prefix.  (The empty attribute renders nothing.)
GroupFlattening ==
    /\ \A i \in 1..Len(handlers) : handlers[i].attrsPrefix = AttachedText(i)
    /\ \A t \in Threads :
          Done(t, "Handle") /\ thr[t].nwrites = 1 =>
              thr[t].warg =
                  Line(Header(thr[t].h, thr[t].rec) \o AttachedText(thr[t].h)
                       \o LeavesText(handlers[thr[t].h].noColor,
                                     Leaves(thr[t].rec.attrs, hist[thr[t].h].names)))

\* a handler that got attributes and then a group has rendered a record with
\* a nested group followed by a plain attribute
GroupFlatteningWitness ==
    \E t \in Threads :
        /\ Done(t, "Handle") /\ thr[t].nwrites = 1
        /\ thr[t].rec.attrs = <<Gnested, Ka>>
        /\ hist[thr[t].h].names = <<<<"a">>>>
        /\ hist[thr[t].h].attached = <<[names |-> <<>>, attrs |-> <<Ka>>]>>
        /\ thr[t].warg = Header(thr[t].h, thr[t].rec)
              \o <<"k", "=", "v", " ">>
              \o <<"a", ".", "r", ".", "n", ".", "k", "=", "v", " ">>
              \o <<"a", ".", "r", ".", "x", "=", "7", " ">>
              \o <<"a", ".", "k", "=", "v", "\n">>

-----------------------------------------------------------------------------
(* C6 *)

\* the invocations of the callback a call makes before the attributes: time,
\* level, source and message, as far as the record and the handler have them
BuiltinCalls(i, r) ==
    (IF r.time # 0 THEN 1 ELSE 0) + 1
        + (IF handlers[i].addSource /\ Frame(r.pc).file # <<>> THEN 1 ELSE 0) + 1

\* the invocations for the attributes of the call goroutine t has returned from
AttrCalls(t) ==
    IF thr[t].op = "Handle"
    THEN SubSeq(thr[t].calls, BuiltinCalls(thr[t].h, thr[t].rec) + 1, Len(thr[t].calls))
    ELSE thr[t].calls

CallAttrs(t) == IF thr[t].op = "Handle" THEN thr[t].rec.attrs ELSE thr[t].arg

\* C6: the callback is never invoked with a Group; it is invoked once for each
\* leaf, in order, and the groups it gets are the WithGroup names of the
\* handler followed by the non-empty keys of the groups around the leaf.
CallbackGroups ==
    \A t \in Threads :
        (Done(t, "Handle") \/ Done(t, "WithAttrs")) /\ handlers[thr[t].h].replaceAttr # "nil" =>
            LET leaves == Leaves(CallAttrs(t), hist[thr[t].h].names)
            IN /\ \A n \in 1..Len(thr[t].calls) : thr[t].calls[n].attr.value.kind # "Group"
               /\ AttrCalls(t) = [n \in 1..Len(leaves) |->
                                     [groups |-> leaves[n].path, attr |-> leaves[n].attr]]

-----------------------------------------------------------------------------
(* C7 *)

\* C7: WithAttrs with no attributes and WithGroup with the empty name return
\* the receiver and create no handler.
EmptyScopeReturnsReceiver ==
    [][\A t \in Threads :
          (Calls(t, "WithAttrs") \/ Calls(t, "WithGroup")) /\ thr'[t].arg = <<>>
              => /\ thr'[t].ret = HandlerRet(thr'[t].h)
                 /\ handlers' = handlers
                 /\ arrays' = arrays]_vars

\* both calls have been made with nothing on a handler that is not the root
EmptyScopeReturnsReceiverWitness ==
    \E t \in Threads :
        /\ Done(t, "WithGroup") /\ thr[t].arg = <<>>
        /\ thr[t].h > 1 /\ thr[t].ret = HandlerRet(thr[t].h)

-----------------------------------------------------------------------------
(* C8 *)

Failing(v) == v.kind = "Any" /\ v.dyn = "TextMarshaler" /\ ~v.ok

\* the leaves whose MarshalText does not fail
RECURSIVE Marshalable(_)
Marshalable(leaves) ==
    IF leaves = <<>> THEN <<>>
    ELSE (IF Failing(Head(leaves).attr.value) THEN <<>> ELSE <<Head(leaves)>>)
         \o Marshalable(Tail(leaves))

\* C8, as claimed: an attribute whose MarshalText fails produces no output at
\* all, so the line is the line of the record without that attribute.
MarshalFailureNoOutput ==
    \A t \in Threads :
        Done(t, "Handle") /\ thr[t].nwrites = 1 /\ hist[thr[t].h].attached = <<>> =>
            thr[t].warg =
                Line(Header(thr[t].h, thr[t].rec)
                     \o LeavesText(handlers[thr[t].h].noColor,
                           Marshalable(Leaves(thr[t].rec.attrs, hist[thr[t].h].names))))

\* the key of a leaf as appendKey writes it: faint, quoted if need be, '='
KeyText(noColor, key) ==
    (IF noColor THEN <<>> ELSE ansiFaint)
        \o (IF needsQuoting(key) THEN Quote(key) ELSE key) \o <<"=">>
        \o (IF noColor THEN <<>> ELSE ansiReset)

\* a leaf as rendered when a failing MarshalText gives no bytes of value
LeafTextNoValue(noColor, leaf) ==
    IF Failing(leaf.attr.value)
    THEN KeyText(noColor, JoinDots(Append(leaf.path, leaf.attr.key))) \o <<" ">>
    ELSE LeafText(noColor, leaf)

\* C8, amended: an attribute whose MarshalText fails is rendered as its key,
\* '=' and the separator, with no byte of value; the other attributes are
\* rendered as usual and Handle returns what Write returned.
MarshalFailureNoValue ==
    \A t \in Threads :
        Done(t, "Handle") /\ thr[t].nwrites = 1 /\ hist[thr[t].h].attached = <<>> =>
            LET leaves == Leaves(thr[t].rec.attrs, hist[thr[t].h].names)
                noColor == handlers[thr[t].h].noColor
            IN /\ thr[t].warg =
                      Line(Header(thr[t].h, thr[t].rec)
                           \o Flatten([n \in 1..Len(leaves) |->
                                          LeafTextNoValue(noColor, leaves[n])]))
               /\ thr[t].ret = ErrRet(thr[t].werr)

\* a record with a failing attribute and a plain one has been written, under
\* a group, and Handle returned success
MarshalFailureNoValueWitness ==
    \E t \in Threads :
        /\ Done(t, "Handle") /\ thr[t].nwrites = 1 /\ thr[t].ret = ErrRet("nil")
        /\ thr[t].rec.attrs = <<KtextFail, Ka>>
        /\ hist[thr[t].h].names = <<<<"a">>>> /\ hist[thr[t].h].attached = <<>>
        /\ handlers[thr[t].h].noColor
        /\ thr[t].warg = Header(thr[t].h, thr[t].rec)
              \o <<"a", ".", "m", "=", " ", "a", ".", "k", "=", "v", "\n">>

-----------------------------------------------------------------------------
(* C9 *)

\* C9: rendering writes to nothing shared: a call of Handle or WithAttrs, also
\* with named groups among the attributes, leaves the attributes prefix, the
\* group prefix and the group names of every handler that exists unchanged.
RenderingLeavesSnapshots ==
    [][(\E t \in Threads :
            thr[t].pc = "idle" /\ thr'[t].pc # "idle" /\ thr'[t].op \in {"Handle", "WithAttrs"})
          => \A i \in 1..Len(handlers) : Snapshot(i)' = Snapshot(i)]_vars

-----------------------------------------------------------------------------
(* C10 *)

InCall(t) == thr[t].pc \in {"rendered", "locked", "writing", "written", "unlocked"}

\* C10: a goroutine inside Handle holds a buffer that is in nobody else's
\* hands and not in the pool, and has not released it while it holds the lock
\* or the write is under way; when Handle has returned, on any path, and when
\* WithAttrs has returned a new handler, the buffer has been released exactly
\* once, in WithAttrs after its bytes were copied into the new attributes
\* prefix.  A buffer is in the pool at most once, empty and of a capacity of at
\* most maxBufferSize, and every buffer newBuffer hands out is empty.
BufferLifecycle ==
    /\ \A b \in BufIds :
          /\ pool[b] <= 1
          /\ pool[b] = 1 =>
                /\ bufs[b].data = <<>> /\ bufs[b].len = 0
                /\ bufs[b].cap <= maxBufferSize
                /\ ~Held(b)
    /\ \A t \in Threads :
          /\ thr[t].acq = 0
          /\ InCall(t) =>
                /\ thr[t].buf \in BufIds /\ thr[t].nfree = 0
                /\ \A u \in Threads \ {t} : thr[u].buf # thr[t].buf
          /\ thr[t].pc \in {"locked", "writing", "written"} =>
                handlers[thr[t].h].mu = t
          /\ (\E i \in 1..Len(handlers) : handlers[i].mu = t) =>
                thr[t].pc \in {"locked", "writing", "written"}
          /\ Done(t, "Handle") => thr[t].nfree = 1 /\ thr[t].buf = 0
          /\ Done(t, "WithAttrs") /\ thr[t].arg # <<>> =>
                /\ thr[t].nfree = 1 /\ thr[t].buf = 0
                /\ handlers[thr[t].ret.h].attrsPrefix =
                      handlers[thr[t].h].attrsPrefix
                      \o appendAttrs([buf |-> NewBuf, heap |-> arrays, calls |-> <<>>],
                                     handlers[thr[t].h], thr[t].arg,
                                     handlers[thr[t].h].groupPrefix,
                                     handlers[thr[t].h].groups).buf.data

\* one Handle has returned without a write, the other after a failed write of
\* a line too long for its buffer to go back to the pool; each has released
\* its buffer once, and one buffer is in the pool
BufferLifecycleWitness ==
    \E t, u \in Threads :
        /\ Done(t, "Handle") /\ thr[t].nwrites = 0 /\ thr[t].nfree = 1
        /\ Done(u, "Handle") /\ thr[u].werr = "EIO" /\ thr[u].nfree = 1
        /\ ByteLen(thr[u].warg) > maxBufferSize
        /\ \E b \in BufIds : pool[b] = 1 /\ \A c \in BufIds \ {b} : pool[c] = 0 /\ bufs[c] = NoBuf

-----------------------------------------------------------------------------
(* C11 *)

\* what one step of the rendering writes, taken alone
Segment(st) == st.buf.data

\* the segments Handle renders for the call of goroutine t, in order: time,
\* level, source, message, the inherited attributes prefix, and each attribute
\* of the record
HandleSegments(t) ==
    LET h == handlers[thr[t].h]
        r == thr[t].rec
        s0 == [buf |-> NewBuf, heap |-> arrays, calls |-> <<>>]
    IN <<Segment(HandleTime(s0, h, r)), Segment(HandleLevel(s0, h, r)),
         Segment(HandleSource(s0, h, r)), Segment(HandleMessage(s0, h, r)),
         Segment(HandlePrefix(s0, h))>>
       \o [n \in 1..Len(r.attrs) |->
             Segment(appendAttr(s0, h, r.attrs[n], h.groupPrefix, h.groups))]

\* C11: when the rendering of a record wrote nothing, Handle makes no write
\* and returns nil.  Otherwise every segment that wrote anything ends with the
\* space separator, so the last byte of the buffer is the separator of the
\* last segment; the line in the buffer and the line written are the segments
\* in order with that one byte made the newline, no other byte changed.
FinalizeLine ==
    \A t \in Threads :
        thr[t].op = "Handle" /\ thr[t].pc # "idle" =>
            LET segs == HandleSegments(t)
                text == Flatten(segs)
            IN /\ \A n \in 1..Len(segs) :
                      segs[n] # <<>> => segs[n][Len(segs[n])] = " "
               /\ IF text = <<>>
                  THEN /\ Done(t, "Handle")
                       /\ thr[t].nwrites = 0 /\ thr[t].warg = <<>>
                       /\ thr[t].ret = ErrRet("nil")
                  ELSE /\ text[Len(text)] = " "
                       /\ InCall(t) => bufs[thr[t].buf].data = Line(text)
                       /\ thr[t].pc \in {"rendered", "locked"} => thr[t].nwrites = 0
                       /\ thr[t].pc \in {"writing", "written", "unlocked", "returned"} =>
                             /\ thr[t].nwrites = 1
                             /\ thr[t].warg = Line(text)
                             /\ thr[t].warg[Len(text)] = "\n"

\* a line has been written whose last segment is the inherited attributes
\* prefix, ending with an attribute that rendered no value: the byte before
\* the newline is the '=' of that attribute
FinalizeLineWitness ==
    \E t \in Threads :
        /\ Done(t, "Handle") /\ thr[t].nwrites = 1
        /\ thr[t].rec.attrs = <<>>
        /\ handlers[thr[t].h].noColor
        /\ handlers[thr[t].h].attrsPrefix # <<>>
        /\ Len(thr[t].warg) >= 2
        /\ thr[t].warg[Len(thr[t].warg) - 1] = "="
        /\ thr[t].warg[Len(thr[t].warg)] = "\n"

====
